---- MODULE Spec2Model ----
(***************************************************************************)
(* State-machine model of src/main.py (virt-qt-tray): the startup of       *)
(* async_main, the periodic_menu_update loop, the worker pool              *)
(* (ThreadPoolExecutor) running _get_vms_sync / _start_vm_sync /           *)
(* _stop_vm_sync step by step, the start_vm / stop_vm dispatchers, the     *)
(* tray's menu and icon, and the shutdown sequence.                        *)
(*                                                                         *)
(* The primary execution context is the asyncio event loop: each action    *)
(* named after a coroutine models one uninterrupted run of that coroutine  *)
(* between two awaits.  The worker actions model the blocking libvirt      *)
(* calls one call at a time, so that calls of different workers            *)
(* interleave.                                                             *)
(***************************************************************************)
EXTENDS Naturals, Sequences, FiniteSets

\* ---------------------------------------------------------------- bounds
\* Number of start/stop invocations in one behaviour.
MaxCommands == 2
\* Number of fetch futures that can exist at once in the model.
FetchSlots == 2
\* Number of start/stop invocations in a behaviour that fills the pool.
PoolCommands == 4

\* ------------------------------------------------------------- constants
\* ThreadPoolExecutor(max_workers=4)
max_workers == 4

\* The hypervisor's domains (handles) and the orders listAllDomains may give.
Domains == {"a", "b"}
Enumerations == {<< >>, <<"a">>, <<"b", "a">>}

\* domain.name()
DomainName(d) == IF d = "a" THEN "alpha" ELSE "beta"

FetchIds == 1..FetchSlots
CmdIds == 1..(IF PoolCommands > MaxCommands THEN PoolCommands ELSE MaxCommands)

VARIABLES
    mainPc,          \* position of async_main
    loopPc,          \* position of the periodic_menu_update task
    awaited,         \* the fetch future the primary context awaits (0: none)
    queue,           \* the executor's work queue (FIFO of task ids)
    fetch,           \* fetch futures and the progress of _get_vms_sync
    cmds,            \* start/stop invocations and their progress
    nCmds,           \* number of invocations so far
    menu,            \* the tray's context menu
    icon,            \* the tray's icon: "base" or "running"
    lastCycle,       \* outcome of the last finished cycle
    alive,           \* conn.isAlive()
    active,          \* domain.isActive() of every domain
    domains,         \* conn.listAllDomains()
    closed,          \* conn.close() was called
    callAfterClose,  \* a hypervisor call was made on the closed connection
    history,         \* whether the history fields "during" and "after" are kept
    cmdLimit,        \* number of invocations the behaviour may make
    env              \* the environment at startup: display, tray, connection

vars == <<mainPc, loopPc, awaited, queue, fetch, cmds, nCmds, menu, icon,
          lastCycle, alive, active, domains, closed, callAfterClose, history, cmdLimit, env>>

\* ------------------------------------------------------------ data model
StatusInverted(isActive) == IF isActive THEN "shut off" ELSE "running"

\* "running" if domain.isActive() else "shut off"
Status(isActive) == IF isActive THEN "running" ELSE "shut off"

\* VMInfo(name=domain.name(), status=status, domain=domain)
VMInfo(d, isActive) ==
    [name |-> DomainName(d), status |-> Status(isActive), domain |-> d]

all_running(vms) == \A i \in 1..Len(vms) : vms[i].status = "running"

\* any(vm["status"] == "running" for vm in vms)
any_running(vms) == \E i \in 1..Len(vms) : vms[i].status = "running"

MenuActionSwapped(status) ==
    IF status = "shut off" THEN "Stop"
    ELSE IF status = "running" THEN "Start" ELSE "none"

\* f"{vm['name']} ({vm['status']})", as the pieces of the formatted string.
Label(name, status) == <<name, " (", status, ")">>

\* The action a VM's submenu offers.
MenuAction(status) ==
    IF status = "shut off" THEN "Start"
    ELSE IF status = "running" THEN "Stop" ELSE "none"

merge_menu(vms) ==
    [shown |-> TRUE,
     entries |-> [i \in 1..Len(vms) |->
                    IF i <= Len(menu.entries) THEN menu.entries[i]
                    ELSE [name |-> vms[i].name, status |-> vms[i].status,
                          label |-> Label(vms[i].name, vms[i].status),
                          action |-> MenuAction(vms[i].status),
                          domain |-> vms[i].domain]],
     placeholder |-> (Len(vms) = 0),
     quit |-> 1]

\* build_menu: one submenu per VM, the placeholder, and the Quit action.
build_menu(vms) ==
    [shown |-> TRUE,
     entries |-> [i \in 1..Len(vms) |->
                    [name |-> vms[i].name, status |-> vms[i].status,
                     label |-> Label(vms[i].name, vms[i].status),
                     action |-> MenuAction(vms[i].status),
                     domain |-> vms[i].domain]],
     placeholder |-> (Len(vms) = 0),
     quit |-> 1]

NoMenu == [shown |-> FALSE, entries |-> << >>, placeholder |-> FALSE, quit |-> 0]

NoFetch ==
    [st |-> "none", pc |-> "-", doms |-> << >>, vms |-> << >>, seen |-> << >>,
     exc |-> "none", aliveSeen |-> "none", listed |-> FALSE, after |-> {}]

NoCmd ==
    [kind |-> "none", dom |-> "-", st |-> "none", pc |-> "-", exc |-> "none",
     act |-> "none", creates |-> 0, destroys |-> 0, msgs |-> 0,
     rec |-> "-", during |-> FALSE, mainCalls |-> 0]

\* ------------------------------------------------------------- executor
FetchInFlight(f) == fetch[f].st \in {"queued", "running"}

InFlightFetches == {f \in FetchIds : FetchInFlight(f)}

RunningCount ==
    Cardinality({f \in FetchIds : fetch[f].st = "running"})
    + Cardinality({c \in CmdIds : cmds[c].st = "running"})

\* The commands whose worker call has finished.
FinishedCmds ==
    {c \in CmdIds : cmds[c].st \in {"done", "returned", "propagated"}}

FreeSlot == CHOOSE f \in FetchIds :
               fetch[f].st = "none" /\ \A g \in FetchIds : fetch[g].st = "none" => f <= g

\* The future of a submitted _get_vms_sync.
NewFetch ==
    [NoFetch EXCEPT !.st = "queued", !.pc = "isAlive",
                    !.after = IF history THEN FinishedCmds ELSE {}]

\* get_vms: loop.run_in_executor(executor, _get_vms_sync, conn)
get_vms ==
    /\ \E f \in FetchIds : fetch[f].st = "none"
    /\ fetch' = [fetch EXCEPT ![FreeSlot] = NewFetch]
    /\ queue' = Append(queue, <<"f", FreeSlot>>)
    /\ awaited' = FreeSlot

OnlyOneWorker == RunningCount < 1

WorkerAlwaysFree == TRUE

\* A worker thread is idle: fewer than max_workers work items are running.
WorkerFree == RunningCount < max_workers

\* A worker takes the next work item; a cancelled future is skipped.
Dequeue ==
    /\ queue # << >>
    /\ WorkerFree
    /\ LET t == Head(queue) IN
         /\ queue' = Tail(queue)
         /\ IF t[1] = "f"
              THEN /\ fetch' = [fetch EXCEPT ![t[2]] =
                          IF @.st = "cancelled" THEN NoFetch
                          ELSE [@ EXCEPT !.st = "running"]]
                   /\ UNCHANGED cmds
              ELSE /\ cmds' = [cmds EXCEPT ![t[2]].st = "running"]
                   /\ UNCHANGED fetch
    /\ UNCHANGED <<mainPc, loopPc, awaited, nCmds, menu, icon, lastCycle,
                   alive, active, domains, closed, callAfterClose, history, cmdLimit, env>>

\* ------------------------------------------------ _get_vms_sync (worker)
AliveCheckSkipped(isAlive) == TRUE

\* assert conn.isAlive()
AliveCheckPasses(isAlive) == isAlive

FetchIsAlive(f) ==
    /\ fetch[f].st = "running" /\ fetch[f].pc = "isAlive"
    /\ fetch' = [fetch EXCEPT ![f] =
          IF AliveCheckPasses(alive)
            THEN [@ EXCEPT !.pc = "list", !.aliveSeen = IF alive THEN "yes" ELSE "no"]
            ELSE [@ EXCEPT !.st = "done", !.pc = "-", !.exc = "AssertionError",
                           !.aliveSeen = "no"]]
    /\ callAfterClose' = (callAfterClose \/ closed)
    /\ UNCHANGED <<mainPc, loopPc, awaited, queue, cmds, nCmds, menu, icon,
                   lastCycle, alive, active, domains, closed, history, cmdLimit, env>>

\* domains = conn.listAllDomains(); the call may raise.
FetchList(f) ==
    /\ fetch[f].st = "running" /\ fetch[f].pc = "list"
    /\ \/ fetch' = [fetch EXCEPT ![f] =
             IF Len(domains) = 0
               THEN [@ EXCEPT !.st = "done", !.pc = "-", !.listed = TRUE]
               ELSE [@ EXCEPT !.pc = "loop", !.doms = domains, !.listed = TRUE]]
       \/ fetch' = [fetch EXCEPT ![f] =
             [@ EXCEPT !.st = "done", !.pc = "-", !.exc = "libvirtError",
                       !.listed = TRUE]]
    /\ callAfterClose' = (callAfterClose \/ closed)
    /\ UNCHANGED <<mainPc, loopPc, awaited, queue, cmds, nCmds, menu, icon,
                   lastCycle, alive, active, domains, closed, history, cmdLimit, env>>

\* One iteration of the for loop: domain.isActive(), domain.name(), append;
\* after the last domain the function returns vms.
FetchDomain(f) ==
    /\ fetch[f].st = "running" /\ fetch[f].pc = "loop"
    /\ LET i == Len(fetch[f].vms) + 1
           d == fetch[f].doms[i]
           last == (i = Len(fetch[f].doms))
       IN fetch' = [fetch EXCEPT ![f] =
             [@ EXCEPT !.vms = Append(@, VMInfo(d, active[d])),
                       !.seen = Append(@, active[d]),
                       !.st = IF last THEN "done" ELSE "running",
                       !.pc = IF last THEN "-" ELSE "loop"]]
    /\ callAfterClose' = (callAfterClose \/ closed)
    /\ UNCHANGED <<mainPc, loopPc, awaited, queue, cmds, nCmds, menu, icon,
                   lastCycle, alive, active, domains, closed, history, cmdLimit, env>>

\* ------------------------------------- _start_vm_sync / _stop_vm_sync
RunAgainAfterRaise == "running"

\* A work item whose call raised is finished: the exception is set on its
\* future and the function is not run again.
AfterRaise == "done"

StartCallsCreateIfInactive(isActive) == ~isActive

\* _start_vm_sync calls domain.create() whatever the domain's state.
StartCallsCreate(isActive) == TRUE

\* domain.create(): the domain becomes active, or the call raises.
StartCreate(c) ==
    /\ cmds[c].st = "running" /\ cmds[c].kind = "start" /\ cmds[c].pc = "create"
    /\ LET d == cmds[c].dom
           was == IF active[d] THEN "yes" ELSE "no"
       IN IF StartCallsCreate(active[d])
            THEN \/ /\ cmds' = [cmds EXCEPT ![c] =
                          [@ EXCEPT !.st = "done", !.pc = "-", !.act = was,
                                    !.creates = @ + 1]]
                    /\ active' = [active EXCEPT ![d] = TRUE]
                 \/ /\ cmds' = [cmds EXCEPT ![c] =
                          [@ EXCEPT !.st = AfterRaise,
                                    !.pc = IF AfterRaise = "done" THEN "-" ELSE @,
                                    !.act = was,
                                    !.creates = @ + 1, !.exc = "libvirtError"]]
                    /\ UNCHANGED active
            ELSE /\ cmds' = [cmds EXCEPT ![c] =
                       [@ EXCEPT !.st = "done", !.pc = "-", !.act = was]]
                 /\ UNCHANGED active
    /\ callAfterClose' = (callAfterClose \/ closed)
    /\ UNCHANGED <<mainPc, loopPc, awaited, queue, fetch, nCmds, menu, icon,
                   lastCycle, alive, domains, closed, history, cmdLimit, env>>

StopCallsDestroyAlways(isActive) == TRUE

StopNeverCallsDestroy(isActive) == FALSE

StopCallsDestroyIfInactive(isActive) == ~isActive

\* if domain.isActive(): ... domain.destroy()
StopCallsDestroy(isActive) == isActive

\* domain.isActive() in _stop_vm_sync.
StopIsActive(c) ==
    /\ cmds[c].st = "running" /\ cmds[c].kind = "stop" /\ cmds[c].pc = "isActive"
    /\ LET d == cmds[c].dom
           says == IF active[d] THEN "yes" ELSE "no"
       IN cmds' = [cmds EXCEPT ![c] =
            IF StopCallsDestroy(active[d])
              THEN [@ EXCEPT !.pc = "destroy", !.act = says]
              ELSE [@ EXCEPT !.st = "done", !.pc = "-", !.act = says]]
    /\ callAfterClose' = (callAfterClose \/ closed)
    /\ UNCHANGED <<mainPc, loopPc, awaited, queue, fetch, nCmds, menu, icon,
                   lastCycle, alive, active, domains, closed, history, cmdLimit, env>>

\* domain.destroy(): the domain becomes inactive, or the call raises.
StopDestroy(c) ==
    /\ cmds[c].st = "running" /\ cmds[c].kind = "stop" /\ cmds[c].pc = "destroy"
    /\ LET d == cmds[c].dom IN
         \/ /\ cmds' = [cmds EXCEPT ![c] =
                  [@ EXCEPT !.st = "done", !.pc = "-", !.destroys = @ + 1]]
            /\ active' = [active EXCEPT ![d] = FALSE]
         \/ /\ cmds' = [cmds EXCEPT ![c] =
                  [@ EXCEPT !.st = AfterRaise,
                            !.pc = IF AfterRaise = "done" THEN "-" ELSE @,
                            !.destroys = @ + 1, !.exc = "libvirtError"]]
            /\ UNCHANGED active
    /\ callAfterClose' = (callAfterClose \/ closed)
    /\ UNCHANGED <<mainPc, loopPc, awaited, queue, fetch, nCmds, menu, icon,
                   lastCycle, alive, domains, closed, history, cmdLimit, env>>

\* ------------------------------------------------- start_vm / stop_vm
\* The event loop runs coroutines while async_main is suspended in an await.
EventLoopRuns == mainPc = "wait_quit"

\* start_vm / stop_vm up to the await: run_in_executor(executor, ..., domain)
Invoke(kind, entry) ==
    /\ EventLoopRuns
    /\ nCmds < cmdLimit
    /\ nCmds' = nCmds + 1
    /\ cmds' = [cmds EXCEPT ![nCmds + 1] =
          [NoCmd EXCEPT !.kind = kind, !.dom = entry.domain, !.st = "queued",
                        !.pc = IF kind = "start" THEN "create" ELSE "isActive",
                        !.rec = entry.status,
                        !.during = (history /\ InFlightFetches # {})]]
    /\ queue' = Append(queue, <<"c", nCmds + 1>>)
    /\ UNCHANGED <<mainPc, loopPc, awaited, fetch, menu, icon, lastCycle,
                   alive, active, domains, closed, callAfterClose, history, cmdLimit, env>>

\* The user picks Start or Stop in a VM's submenu (_make_async_trigger).
Trigger(i) ==
    /\ menu.shown
    /\ i \in 1..Len(menu.entries)
    /\ menu.entries[i].action # "none"
    /\ Invoke(IF menu.entries[i].action = "Start" THEN "start" ELSE "stop",
              menu.entries[i])

CatchesNothing(exc) == FALSE

\* except libvirt.libvirtError
Catches(exc) == exc = "libvirtError"

DispatchedSetsIcon(c) ==
    /\ icon' = IF cmds[c].exc # "none" THEN icon
               ELSE IF cmds[c].kind = "start" THEN "running" ELSE "base"
    /\ UNCHANGED menu

\* start_vm and stop_vm hold no reference to the tray: neither the context
\* menu nor the icon is set by a command.
DispatchedTray(c) == UNCHANGED <<menu, icon>>

\* start_vm / stop_vm after the await: return, or the except clause:
\* QMessageBox.critical, and LOGGER.exception(..., extra={"vm": domain.name()}),
\* which queries the domain handle from the coroutine (mainCalls).
Dispatched(c) ==
    /\ EventLoopRuns
    /\ cmds[c].st = "done"
    /\ cmds' = [cmds EXCEPT ![c] =
          IF @.exc = "none" THEN [@ EXCEPT !.st = "returned"]
          ELSE IF Catches(@.exc)
                 THEN [@ EXCEPT !.st = "returned", !.msgs = @ + 1,
                                !.mainCalls = @ + 1]
          ELSE [@ EXCEPT !.st = "propagated"]]
    /\ DispatchedTray(c)
    /\ UNCHANGED <<mainPc, loopPc, awaited, queue, fetch, nCmds, lastCycle,
                   alive, active, domains, closed, callAfterClose, history,
                   cmdLimit, env>>

\* ------------------------------------------------------ presentation
\* menu = build_menu(vms); tray.setContextMenu(menu);
\* tray.setIcon(running_icon if any_running else base_icon)
Render(vms) ==
    /\ menu' = build_menu(vms)
    /\ icon' = IF any_running(vms) THEN "running" ELSE "base"
    /\ lastCycle' = "rendered"

\* The except clause of periodic_menu_update: tray.setIcon(base_icon),
\* QMessageBox.critical, LOGGER.exception.  The context menu is not touched.
RenderError ==
    /\ icon' = "base"
    /\ lastCycle' = "error"
    /\ UNCHANGED menu

\* ------------------------------------------------------------ async_main
AwaitReturnsEarly == awaited # 0 /\ fetch[awaited].st \in {"running", "done"}

\* vms = await get_vms(conn, executor): the await ends, with the list or with
\* the exception, when _get_vms_sync has finished on its worker.
AwaitReturns == awaited # 0 /\ fetch[awaited].st = "done"

PreconditionsIgnoreConnection(e) == e.has_display /\ e.tray_available

\* assert has_x11 or has_wayland; assert isSystemTrayAvailable();
\* assert conn is not None
PreconditionsHold(e) == e.has_display /\ e.tray_available /\ e.conn_opened

\* ensure_graphical_environment, isSystemTrayAvailable, connect_to_libvirt:
\* any failed assertion aborts; otherwise the tray shows the base icon, the
\* executor is created and the initial get_vms is awaited.
Startup ==
    /\ mainPc = "startup"
    /\ IF PreconditionsHold(env)
         THEN /\ mainPc' = "initial"
              /\ get_vms
         ELSE /\ mainPc' = "aborted"
              /\ UNCHANGED <<awaited, queue, fetch>>
    /\ UNCHANGED <<loopPc, cmds, nCmds, menu, icon, lastCycle, alive, active,
                   domains, closed, callAfterClose, history, cmdLimit, env>>

\* The initial menu setup after its await, then asyncio.create_task and
\* await app_close_event.wait().
InitialMenu ==
    /\ mainPc = "initial"
    /\ AwaitReturns
    /\ IF fetch[awaited].exc = "none"
         THEN Render(fetch[awaited].vms)
         ELSE /\ lastCycle' = "error"
              /\ UNCHANGED <<menu, icon>>
    /\ fetch' = [fetch EXCEPT ![awaited] = NoFetch]
    /\ awaited' = 0
    /\ loopPc' = "ready"
    /\ mainPc' = "wait_quit"
    /\ UNCHANGED <<queue, cmds, nCmds, alive, active, domains, closed,
                   callAfterClose, history, cmdLimit, env>>

\* ------------------------------------------------ periodic_menu_update
CanIssueOnEveryTick == loopPc \in {"ready", "sleeping", "fetching"}

\* The loop issues a fetch when the task first runs and when its sleep ends.
CanIssue == loopPc \in {"ready", "sleeping"}

\* while True: ... vms = await get_vms(conn, executor)
LoopFetch ==
    /\ mainPc = "wait_quit"
    /\ CanIssue
    /\ get_vms
    /\ loopPc' = "fetching"
    /\ UNCHANGED <<mainPc, cmds, nCmds, menu, icon, lastCycle, alive, active,
                   domains, closed, callAfterClose, history, cmdLimit, env>>

\* The rest of the iteration after the await: render, or the except clause;
\* then await asyncio.sleep(POLL_INTERVAL_SECONDS).
LoopRender ==
    /\ mainPc = "wait_quit"
    /\ loopPc = "fetching"
    /\ AwaitReturns
    /\ IF fetch[awaited].exc = "none"
         THEN Render(fetch[awaited].vms)
         ELSE RenderError
    /\ fetch' = [fetch EXCEPT ![awaited] = NoFetch]
    /\ awaited' = 0
    /\ loopPc' = "sleeping"
    /\ UNCHANGED <<mainPc, queue, cmds, nCmds, alive, active, domains, closed,
                   callAfterClose, history, cmdLimit, env>>

\* ------------------------------------------------------------- shutdown
\* aboutToQuit sets app_close_event; async_main resumes: update_task.cancel(),
\* await update_task, and executor.shutdown(wait=True) starts, which blocks
\* the primary context.  Cancelling the task cancels the future it awaits:
\* a fetch still in the queue never runs, a fetch already on a worker goes on
\* unawaited, a finished one is dropped.
AppQuit ==
    /\ mainPc = "wait_quit"
    /\ mainPc' = "shutdown"
    /\ loopPc' = "cancelled"
    /\ awaited' = 0
    /\ fetch' = IF awaited = 0 THEN fetch
                ELSE [fetch EXCEPT ![awaited] =
                        IF @.st = "queued" THEN [@ EXCEPT !.st = "cancelled"]
                        ELSE IF @.st = "done" THEN NoFetch
                        ELSE @]
    /\ UNCHANGED <<queue, cmds, nCmds, menu, icon, lastCycle, alive, active,
                   domains, closed, callAfterClose, history, cmdLimit, env>>

DrainedWithoutWaiting == TRUE

\* shutdown(wait=True) returns when every submitted work item has finished.
Drained ==
    /\ queue = << >>
    /\ RunningCount = 0

\* executor.shutdown returns; conn.close(); async_main returns.
ConnClose ==
    /\ mainPc = "shutdown"
    /\ Drained
    /\ closed' = TRUE
    /\ mainPc' = "exited"
    /\ UNCHANGED <<loopPc, awaited, queue, fetch, cmds, nCmds, menu, icon,
                   lastCycle, alive, active, domains, callAfterClose, history, cmdLimit, env>>

\* ----------------------------------------------------------- hypervisor
\* The connection to the hypervisor breaks; a broken connection stays broken.
ConnectionDrops ==
    /\ mainPc \in {"initial", "wait_quit"}
    /\ alive
    /\ alive' = FALSE
    /\ UNCHANGED <<mainPc, loopPc, awaited, queue, fetch, cmds, nCmds, menu,
                   icon, lastCycle, active, domains, closed, callAfterClose, history, cmdLimit, env>>

\* ------------------------------------------------------- specification
\* The state when async_main starts: nothing submitted, no menu, the
\* hypervisor in any state (only enumerated domains can be active).
InitState ==
    /\ mainPc = "startup"
    /\ loopPc = "none"
    /\ awaited = 0
    /\ queue = << >>
    /\ fetch = [f \in FetchIds |-> NoFetch]
    /\ cmds = [c \in CmdIds |-> NoCmd]
    /\ nCmds = 0
    /\ menu = NoMenu
    /\ icon = "base"
    /\ lastCycle = "none"
    /\ alive \in BOOLEAN
    /\ domains \in Enumerations
    /\ active \in [Domains -> BOOLEAN]
    /\ \A d \in Domains : active[d] => \E i \in 1..Len(domains) : domains[i] = d
    /\ closed = FALSE
    /\ callAfterClose = FALSE
    /\ env \in [has_display : BOOLEAN, tray_available : BOOLEAN,
                conn_opened : BOOLEAN]

Init == InitState /\ history = FALSE /\ cmdLimit = MaxCommands

\* The same program with the history fields kept: which commands were
\* invoked during a fetch, and which had finished when a fetch was issued.
InitHist == InitState /\ history = TRUE /\ cmdLimit = MaxCommands

\* The steps of the pool's worker threads.
Worker ==
    \/ Dequeue
    \/ \E f \in FetchIds : FetchIsAlive(f) \/ FetchList(f) \/ FetchDomain(f)
    \/ \E c \in CmdIds : StartCreate(c) \/ StopIsActive(c) \/ StopDestroy(c)

\* The steps of the coroutines on the event loop.
Program ==
    \/ Startup
    \/ InitialMenu
    \/ LoopFetch
    \/ LoopRender
    \/ ConnClose
    \/ \E c \in CmdIds : Dispatched(c)

\* The program, the user (quit, menu actions) and the hypervisor.
Next ==
    \/ Program
    \/ Worker
    \/ AppQuit
    \/ ConnectionDrops
    \/ \E i \in 1..Len(menu.entries) : Trigger(i)

Spec == Init /\ [][Next]_vars

SpecHist == InitHist /\ [][Next]_vars

\* -------------------------------------------------- the pool when full
\* The same program on a live connection with the one domain "a", the user
\* invoking enough commands to occupy every worker of the pool.
InitPool ==
    /\ InitState
    /\ alive
    /\ domains = <<"a">>
    /\ history = FALSE
    /\ cmdLimit = PoolCommands

SpecPool == InitPool /\ [][Next]_vars

\* ------------------------------------------------ the dispatcher alone
\* start_vm / stop_vm called with the handle of any displayed record,
\* whatever its status (as a caller of the dispatcher may).
ApiCall(kind, i) ==
    /\ menu.shown
    /\ i \in 1..Len(menu.entries)
    /\ Invoke(kind, menu.entries[i])

\* As Next, with the dispatcher called directly instead of from the menu.
NextApi ==
    \/ Program
    \/ Worker
    \/ AppQuit
    \/ ConnectionDrops
    \/ \E kind \in {"start", "stop"}, i \in 1..Len(menu.entries) : ApiCall(kind, i)

SpecApi == Init /\ [][NextApi]_vars

\* ------------------------------------------------------------- fairness
\* The event loop runs every ready coroutine and the pool's workers run
\* every submitted work item; the user and the hypervisor are not obliged
\* to do anything.
FairSpec == Spec /\ WF_vars(Program) /\ WF_vars(Worker)

\* As FairSpec, except that a hypervisor call may never return: the event
\* loop runs every ready coroutine and the workers take every submitted
\* work item, but no call on a worker is obliged to finish.
HangSpec == Spec /\ WF_vars(Program) /\ WF_vars(Dequeue)

\* ================================================================ claims

\* The positions of the executor's queue that hold a fetch.
FetchesQueued == {k \in 1..Len(queue) : queue[k][1] = "f"}

\* C1: at every moment at most one inventory fetch is in flight (queued or
\* running on a worker), over the startup fetch and all iterations of the
\* periodic loop; fetches never pile up in the executor's queue.
C1_AtMostOneFetchInFlight ==
    /\ Cardinality(InFlightFetches) <= 1
    /\ Cardinality(FetchesQueued) <= 1

\* A periodic fetch in flight after an earlier cycle has finished.
C1_Witness ==
    /\ loopPc = "fetching"
    /\ lastCycle # "none"
    /\ Cardinality(InFlightFetches) = 1

\* C2: a fetch that returns holds exactly one record per enumerated domain,
\* in enumeration order; record i carries domain i's name and handle, and
\* its status is "running" iff domain i answered active when this fetch
\* queried it, otherwise "shut off".
C2_FetchMatchesInventory ==
    \A f \in FetchIds :
        (fetch[f].st = "done" /\ fetch[f].exc = "none") =>
            /\ fetch[f].aliveSeen = "yes"
            /\ Len(fetch[f].vms) = Len(domains)
            /\ \A i \in 1..Len(domains) :
                 /\ fetch[f].vms[i].name = DomainName(domains[i])
                 /\ fetch[f].vms[i].domain = domains[i]
                 /\ fetch[f].vms[i].status \in {"running", "shut off"}
                 /\ fetch[f].vms[i].status = "running" <=> fetch[f].seen[i]

\* A returned two-domain fetch whose records differ in status and one of
\* whose domains has changed state since it was queried.
C2_Witness ==
    \E f \in FetchIds :
        /\ fetch[f].st = "done" /\ fetch[f].exc = "none"
        /\ Len(fetch[f].vms) = 2
        /\ fetch[f].vms[1].status # fetch[f].vms[2].status
        /\ \E i \in 1..2 : fetch[f].seen[i] # active[domains[i]]

\* C3: after a successful cycle the icon is the running icon iff at least one
\* record of the snapshot just rendered is running; for an empty snapshot it
\* is the base icon.
C3_IconMatchesSnapshot ==
    lastCycle = "rendered" =>
        /\ menu.shown
        /\ icon \in {"base", "running"}
        /\ icon = "running" <=>
             \E i \in 1..Len(menu.entries) : menu.entries[i].status = "running"

\* A periodic cycle rendered a snapshot with a running and a stopped VM.
C3_Witness ==
    /\ lastCycle = "rendered"
    /\ loopPc = "sleeping"
    /\ icon = "running"
    /\ \E i \in 1..Len(menu.entries) : menu.entries[i].status = "shut off"

\* C4: when a fetch has failed, the cycle ends with the tray in the neutral
\* state: the base icon and no VM list of an earlier snapshot in the menu.
C4_FailedCycleShowsNoSnapshot ==
    lastCycle = "error" =>
        /\ icon = "base"
        /\ Len(menu.entries) = 0

\* A fetch whose connection answered not alive has failed with the
\* assertion's error and has not called listAllDomains.
C5_DeadConnectionFails ==
    \A f \in FetchIds :
        fetch[f].aliveSeen = "no" =>
            /\ fetch[f].st = "done"
            /\ fetch[f].exc = "AssertionError"
            /\ ~fetch[f].listed

\* While async_main waits for the quit signal the loop task has not ended.
C5_LoopIsRunning ==
    mainPc = "wait_quit" => loopPc \in {"ready", "fetching", "sleeping"}

\* The fetch the loop awaits has failed.
C5_FetchFailed ==
    /\ loopPc = "fetching"
    /\ awaited # 0
    /\ fetch[awaited].st = "done"
    /\ fetch[awaited].exc # "none"

\* The loop has handled a failure and sleeps.
C5_IdleAfterError == loopPc = "sleeping" /\ lastCycle = "error"

\* C5: a fetch on a connection that answers not alive fails with an error
\* and never enumerates domains; a failed fetch does not end the loop: the
\* loop handles the failure and goes back to sleeping, and unless shutdown
\* is requested a later fetch is issued.
C5_FailureNeverEndsLoop ==
    /\ [](C5_DeadConnectionFails /\ C5_LoopIsRunning)
    /\ C5_FetchFailed ~> (C5_IdleAfterError \/ mainPc # "wait_quit")
    /\ C5_IdleAfterError ~> (loopPc = "fetching" \/ mainPc # "wait_quit")

\* After a failed cycle the next fetch runs and again finds the connection
\* not alive.
C5_Witness ==
    /\ lastCycle = "error"
    /\ loopPc = "fetching"
    /\ awaited # 0
    /\ fetch[awaited].aliveSeen = "no"
    /\ fetch[awaited].st = "done"

\* C6 as stated: a stop issued against a record whose status is "shut off"
\* never calls destroy and completes without an error, whatever happened to
\* the domain since the fetch.
C6_StopOnShutOffRecordIsNoOp ==
    \A c \in CmdIds :
        (cmds[c].kind = "stop" /\ cmds[c].rec = "shut off") =>
            /\ cmds[c].destroys = 0
            /\ cmds[c].exc = "none"

\* C6 amended: a stop whose domain answers inactive when the stop executes
\* on the worker never calls destroy and completes without an error and
\* without a message.
C6_StopOnInactiveDomainIsNoOp ==
    \A c \in CmdIds :
        (cmds[c].kind = "stop" /\ cmds[c].act = "no") =>
            /\ cmds[c].destroys = 0
            /\ cmds[c].exc = "none"
            /\ cmds[c].msgs = 0
            /\ cmds[c].st \in {"done", "returned"}

\* A stop on a "shut off" record returned as a no-op after another command
\* had run on the same domain.
C6_Witness ==
    \E c \in CmdIds, b \in CmdIds :
        /\ b < c
        /\ cmds[b].dom = cmds[c].dom
        /\ cmds[b].st = "returned"
        /\ cmds[c].kind = "stop" /\ cmds[c].rec = "shut off"
        /\ cmds[c].act = "no"
        /\ cmds[c].st = "returned"

\* C7: every start calls create exactly once, without a check of the
\* domain's state: also when the domain is already running, and also when
\* create raises.
C7_StartCallsCreateOnce ==
    \A c \in CmdIds :
        cmds[c].kind = "start" =>
            /\ cmds[c].st \in {"queued", "running"} => cmds[c].creates = 0
            /\ cmds[c].st \in {"done", "returned", "propagated"} =>
                 cmds[c].creates = 1

\* A start on an already running domain whose create raised.
C7_Witness ==
    \E c \in CmdIds :
        /\ cmds[c].kind = "start"
        /\ cmds[c].st = "returned"
        /\ cmds[c].act = "yes"
        /\ cmds[c].exc = "libvirtError"
        /\ cmds[c].creates = 1

\* C8: an error raised by a start or stop is caught in the dispatcher and
\* shown to the user once; it never leaves the command, the loop task stays
\* alive, and a command that did not fail shows nothing.
C8_CommandErrorsAreCaptured ==
    /\ \A c \in CmdIds :
         /\ cmds[c].st # "propagated"
         /\ cmds[c].st \in {"none", "queued", "running", "done"} => cmds[c].msgs = 0
         /\ cmds[c].st = "returned" =>
              cmds[c].msgs = (IF cmds[c].exc = "none" THEN 0 ELSE 1)
    /\ mainPc = "wait_quit" => loopPc \in {"ready", "fetching", "sleeping"}

\* One command failed and was reported, a later start on the other VM
\* returned without error, and a later poll cycle has rendered that VM as
\* running.
C8_Witness ==
    \E c \in CmdIds, b \in CmdIds :
        /\ c < b
        /\ cmds[c].dom # cmds[b].dom
        /\ cmds[c].st = "returned" /\ cmds[c].exc = "libvirtError"
        /\ cmds[c].msgs = 1
        /\ cmds[b].kind = "start" /\ cmds[b].rec = "shut off"
        /\ cmds[b].st = "returned" /\ cmds[b].exc = "none"
        /\ lastCycle = "rendered"
        /\ loopPc = "sleeping"
        /\ \E i \in 1..Len(menu.entries) :
             /\ menu.entries[i].domain = cmds[b].dom
             /\ menu.entries[i].status = "running"

\* No command works against start on a and stop on b.
C9_NoOpposingCommand ==
    \A c \in CmdIds :
        /\ cmds[c].kind = "stop" => cmds[c].dom # "a"
        /\ cmds[c].kind = "start" => cmds[c].dom # "b"

\* The commands of a kind on a domain that were issued while a fetch was in
\* flight and have completed without error.
C9_Completed(kind, d) ==
    {c \in CmdIds : /\ cmds[c].kind = kind /\ cmds[c].dom = d
                    /\ cmds[c].during
                    /\ cmds[c].st \in {"done", "returned"}
                    /\ cmds[c].exc = "none"}

\* The hypervisor's inventory as it is now.
C9_Inventory ==
    [i \in 1..Len(domains) |-> VMInfo(domains[i], active[domains[i]])]

\* C9: start on a and stop on b, both issued while a fetch is in flight and
\* no command working against them (no stop on a, no start on b): once both
\* have completed without error, a is active and b is inactive; every fetch
\* that returns is well formed; and a fetch issued after both completed
\* returns the hypervisor's inventory, a running and b shut off.
C9_ConcurrentCommandsTakeEffect ==
    \A s \in C9_Completed("start", "a"), t \in C9_Completed("stop", "b") :
        C9_NoOpposingCommand =>
            /\ active["a"] /\ ~active["b"]
            /\ \A f \in FetchIds :
                 (fetch[f].st = "done" /\ fetch[f].exc = "none") =>
                    /\ Len(fetch[f].vms) = Len(domains)
                    /\ \A i \in 1..Len(domains) :
                         /\ fetch[f].vms[i].domain = domains[i]
                         /\ fetch[f].vms[i].status \in {"running", "shut off"}
                    /\ {s, t} \subseteq fetch[f].after =>
                         /\ fetch[f].vms = C9_Inventory
                         /\ \A i \in 1..Len(domains) :
                              fetch[f].vms[i].status =
                                 (IF domains[i] = "a" THEN "running" ELSE "shut off")

\* Both commands were issued during a fetch and completed, and the fetch
\* issued after them has returned.
C9_Witness ==
    \E s \in C9_Completed("start", "a"), t \in C9_Completed("stop", "b") :
        /\ C9_NoOpposingCommand
        /\ cmds[s].act = "no" /\ cmds[t].act = "yes"
        /\ \E f \in FetchIds :
             /\ fetch[f].st = "done" /\ fetch[f].exc = "none"
             /\ {s, t} \subseteq fetch[f].after
             /\ Len(fetch[f].vms) = 2

\* After the quit signal the loop task is cancelled; a closed connection
\* means an empty pool; no call was made on the closed connection.
C10_ClosedAfterDrain ==
    /\ mainPc \in {"shutdown", "exited"} => loopPc = "cancelled"
    /\ closed =>
         /\ mainPc = "exited"
         /\ queue = << >>
         /\ InFlightFetches = {}
         /\ \A c \in CmdIds : cmds[c].st \notin {"queued", "running"}
    /\ ~callAfterClose

\* A step taken after the quit signal puts no new fetch in flight.
C10_NoFetchIssued ==
    mainPc \in {"shutdown", "exited"} => InFlightFetches' \subseteq InFlightFetches

\* C10: once shutdown has begun no fetch is issued; the connection is closed
\* only when no work item is queued or running on the pool; and no
\* hypervisor call is made on, or in progress at, the closed connection.
C10_ShutdownDrainsBeforeClose ==
    /\ []C10_ClosedAfterDrain
    /\ [][C10_NoFetchIssued]_vars

\* The connection was closed after a command and a fetch that were still in
\* flight when shutdown began had finished on their workers.
C10_Witness ==
    /\ closed
    /\ \E c \in CmdIds : cmds[c].st = "done"
    /\ \E f \in FetchIds : fetch[f].st = "done"

\* The number of work items submitted to the pool and not yet finished.
C11_PendingOps == RunningCount + Len(queue)

\* The user can invoke a command from the displayed menu.
C11_CommandOffered ==
    /\ EventLoopRuns
    /\ nCmds < cmdLimit
    /\ menu.shown
    /\ \E i \in 1..Len(menu.entries) : menu.entries[i].action # "none"

\* A fetch waits in the queue while commands occupy the workers.
C11_FetchDelayed ==
    /\ \E f \in FetchIds : fetch[f].st = "queued" /\ queue[1] = <<"f", f>>
    /\ \E c \in CmdIds : cmds[c].st = "running"
    /\ ~ENABLED Dequeue

\* A command waits in the queue while a fetch occupies a worker.
C11_CommandDelayed ==
    /\ \E c \in CmdIds : cmds[c].st = "queued" /\ queue[1] = <<"c", c>>
    /\ \E f \in FetchIds : fetch[f].st = "running"
    /\ ~ENABLED Dequeue

\* C11 as stated: whatever the number of pending commands, a command is
\* accepted during a fetch, no command waits in the queue while a fetch
\* runs, and no fetch waits in the queue while commands run.
C11_NeverDelayed ==
    /\ C11_CommandOffered => ENABLED (\E i \in 1..Len(menu.entries) : Trigger(i))
    /\ ~C11_FetchDelayed
    /\ ~C11_CommandDelayed

\* C11 amended: a command is accepted whether or not a fetch is in flight,
\* and as long as at most max_workers work items are pending the item at the
\* head of the queue, fetch or command, is taken by a worker at once: no
\* command waits for a fetch and no fetch waits for a command.
C11_NotDelayedBelowCapacity ==
    /\ C11_CommandOffered => ENABLED (\E i \in 1..Len(menu.entries) : Trigger(i))
    /\ (queue # << >> /\ C11_PendingOps <= max_workers) => ENABLED Dequeue
    /\ C11_PendingOps <= max_workers => ~C11_FetchDelayed /\ ~C11_CommandDelayed

\* A fetch and a command are running on workers, a second command was
\* queued after the fetch had been taken, and the user can invoke a third.
C11_Witness ==
    /\ \E f \in FetchIds : fetch[f].st = "running" /\ loopPc = "fetching"
    /\ \E c \in CmdIds : cmds[c].st = "running"
    /\ \E c \in CmdIds : queue = << <<"c", c>> >>
    /\ C11_CommandOffered
    /\ ENABLED Dequeue

\* A step in which async_main or the loop renders the snapshot it awaited.
C12_RenderStep ==
    /\ awaited # 0
    /\ fetch[awaited].st = "done" /\ fetch[awaited].exc = "none"
    /\ awaited' = 0
    /\ mainPc' = "wait_quit"

\* The menu m is the menu of the snapshot vms.
C12_MenuOf(m, vms) ==
    /\ m.shown
    /\ Len(m.entries) = Len(vms)
    /\ \A i \in 1..Len(vms) :
         /\ m.entries[i].label = <<vms[i].name, " (", vms[i].status, ")">>
         /\ m.entries[i].domain = vms[i].domain
         /\ vms[i].status = "shut off" => m.entries[i].action = "Start"
         /\ vms[i].status = "running" => m.entries[i].action = "Stop"
    /\ m.placeholder <=> Len(vms) = 0
    /\ m.quit = 1

\* C12: the menu built from a snapshot has one submenu per record, in
\* snapshot order, labelled 'name (status)'; a shut off record offers Start
\* (and not Stop), a running record offers Stop (and not Start); the
\* placeholder is present iff the snapshot is empty; and every displayed
\* menu has exactly one Quit action.
C12_MenuMatchesSnapshot ==
    /\ [][C12_RenderStep => C12_MenuOf(menu', fetch[awaited].vms)]_vars
    /\ [](menu.shown => menu.quit = 1 /\ (menu.placeholder <=> menu.entries = << >>))

\* A periodic cycle rendered the menu of a two-record snapshot:
\* 'beta (running)' with Stop, then 'alpha (shut off)' with Start.
C12_Witness ==
    /\ loopPc = "sleeping" /\ lastCycle = "rendered"
    /\ Len(menu.entries) = 2
    /\ menu.entries[1].label = <<"beta", " (", "running", ")">>
    /\ menu.entries[1].action = "Stop"
    /\ menu.entries[2].label = <<"alpha", " (", "shut off", ")">>
    /\ menu.entries[2].action = "Start"
    /\ ~menu.placeholder /\ menu.quit = 1

\* No graphical session, no tray support, or the connection open returned
\* nothing.
C13_PreconditionFailed ==
    ~env.has_display \/ ~env.tray_available \/ ~env.conn_opened

\* Nothing of the program beyond the failed check has happened.
C13_NothingStarted ==
    /\ mainPc \in {"startup", "aborted"}
    /\ loopPc = "none"
    /\ awaited = 0 /\ queue = << >>
    /\ \A f \in FetchIds : fetch[f] = NoFetch
    /\ ~menu.shown

\* C13: when a startup precondition fails (no display, no tray, or no
\* connection), startup aborts: no fetch is ever issued, the periodic loop
\* is never started, and an aborted startup takes no further step (the
\* failed precondition is not checked again).
C13_FailedPreconditionAborts ==
    /\ [](C13_PreconditionFailed => C13_NothingStarted)
    /\ [](mainPc = "aborted" <=> (mainPc # "startup" /\ C13_PreconditionFailed))
    /\ [][mainPc # "aborted"]_vars

\* Startup aborted because the connection was not opened, with a display
\* and a tray present.
C13_Witness ==
    /\ mainPc = "aborted"
    /\ env.has_display /\ env.tray_available /\ ~env.conn_opened

\* A step that changes what the tray shows or ends a cycle.
C14_PresentationStep ==
    menu' # menu \/ icon' # icon \/ lastCycle' # lastCycle

\* A step that submits a fetch.
C14_FetchIssued ==
    \E f \in FetchIds : fetch[f].st = "none" /\ fetch'[f].st = "queued"

\* The tray changes only in a step that consumes the awaited fetch, finished
\* on its worker; the menu is replaced only when that fetch succeeded, and a
\* failed fetch ends the cycle as an error.
C14_RenderAfterFetch ==
    C14_PresentationStep =>
        /\ awaited # 0
        /\ fetch[awaited].st = "done"
        /\ awaited' = 0 /\ fetch'[awaited] = NoFetch
        /\ fetch[awaited].exc = "none" => lastCycle' = "rendered"
        /\ fetch[awaited].exc # "none" => lastCycle' = "error" /\ menu' = menu

\* A fetch is submitted only when no fetch is awaited and none is queued,
\* running or waiting to be rendered: the previous cycle has ended.
C14_FetchAfterRender ==
    C14_FetchIssued =>
        /\ awaited = 0
        /\ \A f \in FetchIds : fetch[f].st = "none"
        /\ loopPc \in {"none", "ready", "sleeping"}

\* C14: within a cycle the render or error transition happens only after
\* the cycle's fetch has finished (returned or raised), a render only after
\* a fetch that succeeded; and the render or error handling of a cycle is
\* complete before the next cycle's fetch is issued.
C14_CycleOrder ==
    /\ [][C14_RenderAfterFetch]_vars
    /\ [][C14_FetchAfterRender]_vars
    /\ [](lastCycle = "rendered" => menu.shown)

\* After a startup render and a periodic cycle that ended in an error, the
\* next cycle's fetch has been issued and is still queued.
C14_Witness ==
    /\ menu.shown /\ lastCycle = "error"
    /\ loopPc = "fetching"
    /\ awaited # 0 /\ fetch[awaited].st = "queued"

\* C15: a fetch is issued either by startup or by the loop waking from its
\* sleep: between the end of a cycle and the next fetch there is always one
\* wait of the poll interval.
C15_TimerWaitBetweenCycles ==
    [][(\E f \in FetchIds : fetch'[f].st = "queued" /\ fetch[f].st # "queued") =>
          (mainPc = "startup" \/ loopPc = "sleeping")]_vars

\* C16: every hypervisor call of the fetcher and the dispatcher is made by a
\* worker of the pool; the primary execution context makes none, on success
\* paths and on error paths alike.
C16_NoCallOnPrimaryContext ==
    \A c \in CmdIds : cmds[c].mainCalls = 0

\* C17: a stop calls destroy iff the domain handle answered active when the
\* stop ran on its worker, whatever status the record it was invoked from
\* shows: after an answer "active" destroy is called exactly once; after an
\* answer "inactive" it is never called and the stop ends without an error
\* and without a message.
C17_StopFollowsLiveState ==
    \A c \in CmdIds :
        cmds[c].kind = "stop" =>
            /\ cmds[c].act = "none" =>
                 cmds[c].st \in {"queued", "running"} /\ cmds[c].destroys = 0
            /\ cmds[c].act = "yes" =>
                 \/ cmds[c].st = "running" /\ cmds[c].pc = "destroy"
                                          /\ cmds[c].destroys = 0
                 \/ cmds[c].st \in {"done", "returned"} /\ cmds[c].destroys = 1
            /\ cmds[c].act = "no" =>
                 /\ cmds[c].st \in {"done", "returned"}
                 /\ cmds[c].destroys = 0
                 /\ cmds[c].exc = "none"
                 /\ cmds[c].msgs = 0

\* Two stops invoked from the same "running" record have returned: the
\* first found the domain active and called destroy, the second found it
\* inactive and did nothing.
C17_Witness ==
    \E c \in CmdIds, b \in CmdIds :
        /\ cmds[c].dom = cmds[b].dom
        /\ cmds[c].kind = "stop" /\ cmds[c].rec = "running"
        /\ cmds[c].act = "yes" /\ cmds[c].destroys = 1
        /\ cmds[c].exc = "none" /\ cmds[c].st = "returned"
        /\ cmds[b].kind = "stop" /\ cmds[b].rec = "running"
        /\ cmds[b].act = "no" /\ cmds[b].destroys = 0
        /\ cmds[b].st = "returned"

RECURSIVE C18_Sum(_, _)
\* F[1] + ... + F[n]
C18_Sum(F, n) == IF n = 0 THEN 0 ELSE F[n] + C18_Sum(F, n - 1)

\* The number of create calls made so far, and of start invocations.
C18_Creates == C18_Sum([c \in 1..nCmds |-> cmds[c].creates], nCmds)

C18_Starts == Cardinality({c \in CmdIds : cmds[c].kind = "start"})

\* The number of destroy calls made so far, and of stop invocations.
C18_Destroys == C18_Sum([c \in 1..nCmds |-> cmds[c].destroys], nCmds)

C18_Stops == Cardinality({c \in CmdIds : cmds[c].kind = "stop"})

\* At most one create per start invocation and one destroy per stop
\* invocation; a start never calls destroy and a stop never calls create.
C18_CallsBounded ==
    /\ C18_Creates <= C18_Starts
    /\ C18_Destroys <= C18_Stops
    /\ \A c \in CmdIds :
         /\ cmds[c].kind # "start" => cmds[c].creates = 0
         /\ cmds[c].kind # "stop" => cmds[c].destroys = 0

\* A command whose worker call has finished, with or without an error, is
\* never queued or run again.
C18_FinishedStaysFinished ==
    \A c \in CmdIds :
        cmds[c].st \in {"done", "returned"} =>
            /\ cmds'[c].st \in {"done", "returned"}
            /\ cmds'[c].creates = cmds[c].creates
            /\ cmds'[c].destroys = cmds[c].destroys

\* A domain changes state only in the step in which a command's worker
\* calls create or destroy on it: the loop's steps change no domain.
C18_OnlyCommandsAct ==
    \A d \in Domains :
        active'[d] # active[d] =>
            \E c \in CmdIds :
                /\ cmds[c].dom = d /\ cmds[c].st = "running"
                /\ IF active'[d] THEN cmds'[c].creates = cmds[c].creates + 1
                                 ELSE cmds'[c].destroys = cmds[c].destroys + 1

\* C18: a failed start or stop is never attempted again and the loop never
\* calls create or destroy: the create calls number at most the start
\* invocations and the destroy calls at most the stop invocations.
C18_NoRetry ==
    /\ []C18_CallsBounded
    /\ [][C18_FinishedStaysFinished]_vars
    /\ [][C18_OnlyCommandsAct]_vars

\* The one command, a start whose create raised, has returned with its
\* message; create was called once, and the loop sleeps after a cycle that
\* shows a VM shut off.
C18_Witness ==
    /\ \E c \in CmdIds :
         /\ cmds[c].kind = "start" /\ cmds[c].exc = "libvirtError"
         /\ cmds[c].st = "returned" /\ cmds[c].msgs = 1
    /\ nCmds = 1 /\ C18_Creates = 1 /\ C18_Starts = 1
    /\ loopPc = "sleeping" /\ lastCycle = "rendered"
    /\ \E i \in 1..Len(menu.entries) : menu.entries[i].status = "shut off"

\* What the tray must show for the domains doms that answered seen to
\* isActive(): a function of the fetch alone.
C19_StatusOf(isActive) == IF isActive THEN "running" ELSE "shut off"

C19_MenuOf(doms, seen) ==
    [shown |-> TRUE,
     entries |-> [i \in 1..Len(doms) |->
                    [name |-> DomainName(doms[i]),
                     status |-> C19_StatusOf(seen[i]),
                     label |-> <<DomainName(doms[i]), " (", C19_StatusOf(seen[i]), ")">>,
                     action |-> IF seen[i] THEN "Stop" ELSE "Start",
                     domain |-> doms[i]]],
     placeholder |-> (Len(doms) = 0),
     quit |-> 1]

C19_IconOf(seen) ==
    IF \E i \in 1..Len(seen) : seen[i] THEN "running" ELSE "base"

\* A step in which the loop renders the fetch it awaited.
C19_PollRenders ==
    /\ loopPc = "fetching" /\ loopPc' = "sleeping"
    /\ fetch[awaited].exc = "none"

\* C19: a successful poll replaces what is displayed completely: the menu
\* and the icon after the cycle are determined by what the hypervisor
\* answered to this cycle's fetch and by nothing else, so that runs with
\* different earlier snapshots and the same answers display the same.
C19_PollReplacesSnapshot ==
    [][C19_PollRenders =>
          /\ menu' = C19_MenuOf(fetch[awaited].doms, fetch[awaited].seen)
          /\ icon' = C19_IconOf(fetch[awaited].seen)]_vars

\* The one command, a stop invoked from a "running" record, has destroyed
\* its domain, and a later poll shows that VM shut off with the base icon.
C19_Witness ==
    /\ nCmds = 1
    /\ cmds[1].kind = "stop" /\ cmds[1].rec = "running"
    /\ cmds[1].destroys = 1 /\ cmds[1].exc = "none" /\ cmds[1].st = "returned"
    /\ loopPc = "sleeping" /\ lastCycle = "rendered"
    /\ icon = "base"
    /\ \E i \in 1..Len(menu.entries) :
         /\ menu.entries[i].domain = cmds[1].dom
         /\ menu.entries[i].status = "shut off"

\* C20: once shutdown has begun it completes, the connection closed, also
\* when a call on a worker never returns: the wait for in-flight work is
\* bounded.
C20_ShutdownCompletes ==
    (mainPc = "shutdown") ~> (mainPc = "exited" /\ closed)

\* The work items a step moves from the queue onto a worker.
C21_Started ==
    {<<"f", f>> : f \in {g \in FetchIds :
                            fetch[g].st = "queued" /\ fetch'[g].st = "running"}}
    \cup {<<"c", c>> : c \in {b \in CmdIds :
                            cmds[b].st = "queued" /\ cmds'[b].st = "running"}}

\* A step starts at most one work item: the one at the head of the queue,
\* and only when fewer than max_workers items are running; the queue grows
\* only at its tail and shrinks only at its head.
C21_StartsInOrder ==
    /\ \A t \in C21_Started :
         /\ C21_Started = {t}
         /\ RunningCount < max_workers
         /\ queue # << >>
         /\ queue[1] = t
         /\ queue' = Tail(queue)
    /\ queue' # queue =>
         \/ queue # << >> /\ queue' = Tail(queue)
         \/ Len(queue') = Len(queue) + 1 /\ SubSeq(queue', 1, Len(queue)) = queue

\* At most max_workers items are running, every submitted item that has not
\* started is in the queue exactly once, and an item waits at the head of
\* the queue only while every worker is busy.
C21_PoolBounded ==
    /\ RunningCount <= max_workers
    /\ \A c \in CmdIds :
         cmds[c].st = "queued" <=>
             Cardinality({k \in 1..Len(queue) : queue[k] = <<"c", c>>}) = 1
    /\ \A f \in FetchIds :
         fetch[f].st \in {"queued", "cancelled"} <=>
             Cardinality({k \in 1..Len(queue) : queue[k] = <<"f", f>>}) = 1
    /\ (queue # << >> /\ ~ENABLED Dequeue) => RunningCount = max_workers

\* C21: at every moment at most 4 operations (fetches and commands) are
\* executing; an operation requested while all workers are busy waits in
\* the pool's queue until a worker is free, and the queued operations are
\* started in the order in which they were submitted.
C21_AtMostFourInOrder ==
    /\ []C21_PoolBounded
    /\ [][C21_StartsInOrder]_vars

\* Four operations are running, a fetch among them, and a command waits in
\* the queue.
C21_Witness ==
    /\ RunningCount = max_workers
    /\ \E f \in FetchIds : fetch[f].st = "running"
    /\ \E c \in CmdIds : cmds[c].st = "queued" /\ queue = << <<"c", c>> >>
    /\ ~ENABLED Dequeue

\* A step of a command: its invocation, its start on a worker, one of its
\* hypervisor calls, or the return of its dispatcher.
C22_CommandStep == cmds' # cmds

\* A step in which async_main or the loop ends a cycle, by a render or by
\* its error handling.
C22_CycleEnds ==
    /\ awaited # 0 /\ fetch[awaited].st = "done"
    /\ awaited' = 0
    /\ mainPc' = "wait_quit"
    /\ loopPc' \in {"ready", "sleeping"}

\* C22: a step of a start or stop command, successful or failed, changes
\* neither the menu nor the icon; what the tray shows changes only in the
\* step that ends a cycle, so the menu keeps a VM's previous status and
\* action after a command until a later poll renders.
C22_CommandsLeaveTray ==
    [][/\ C22_CommandStep =>
            menu' = menu /\ icon' = icon /\ lastCycle' = lastCycle
       /\ (menu' # menu \/ icon' # icon) =>
            C22_CycleEnds /\ cmds' = cmds /\ active' = active]_vars

\* A start has succeeded and returned, its domain is active, and the tray
\* still shows that VM as shut off, with the Start action and the base icon.
C22_Witness ==
    \E c \in CmdIds :
        /\ cmds[c].kind = "start" /\ cmds[c].exc = "none"
        /\ cmds[c].st = "returned" /\ cmds[c].creates = 1
        /\ active[cmds[c].dom]
        /\ icon = "base"
        /\ \E i \in 1..Len(menu.entries) :
             /\ menu.entries[i].domain = cmds[c].dom
             /\ menu.entries[i].status = "shut off"
             /\ menu.entries[i].action = "Start"

====
